---- MODULE Spec2Model ----
\* Model of examples/cifar.py, main(): the CIFAR-10 training script of LeKan.
\* One action per statement group of main(); pc is the position in main().
\* Tensors are abstracted: the network's parameters are one value of ParamVals,
\* a batch is the set of the sample indices it holds, a loss is a natural number.
EXTENDS Integers, Sequences, FiniteSets, TLC

\* ---------------------------------------------------------------- bounds
MaxTrain == 5    \* largest training-set size explored
MaxTest == 5     \* largest test-set size explored
MaxParam == 1    \* parameter values are 0..MaxParam
MaxLoss == 1     \* a batch loss is 0..MaxLoss

\* ------------------------------------------------------ program constants
batch_size == 4
NumEpochs == 10
NumClasses == 10
GroundTruthCount == 4
LrBaseNum == 1
LrBaseDen == 1000
GammaNum == 4
GammaDen == 5

ParamVals == 0..MaxParam
Classes == 0..(NumClasses - 1)
Unset == <<>>
NoOutputs == [s \in {} |-> 0]
NoFile == [weights |-> 0, device |-> "absent"]
NoPostfix == [loss |-> Unset, accuracy |-> Unset]

VARIABLES
    pc,            \* position in main()
    fault,         \* "none", or the kind of the unhandled exception that ended main()
    cudaAvailable, \* torch.cuda.is_available()
    nTrain, nTest, \* len(trainset), len(testset)
    device,        \* the variable device of line 169
    netParams,     \* the values of net's parameters
    netDevice,     \* the device net's parameters live on
    grads,         \* "none" (cleared) or "computed"
    lr,            \* optimizer.param_groups[0]['lr'] as a reduced fraction <<num, den>>
    last_epoch,    \* scheduler.last_epoch: number of scheduler.step() calls
    epoch,         \* position of the range(10) iterator; the loop variable inside the body
    i,             \* position of enumerate(pbar, 0); the loop variable inside the body
    trainRemaining,\* samples the current trainloader iterator has not yielded yet
    testRemaining, \* samples the current testloader iterator has not yielded yet
    data,          \* the current batch: set of sample indices
    dataDevice,    \* the device the current batch's tensors live on
    outputs,       \* outputs.argmax(dim=1): function from the batch's samples to classes
    correct, total, accuracy,
    running_loss, loss,
    postfix,       \* the postfix of the open progress bar pbar (NoPostfix: none)
    printed,       \* the accuracy line 236 printed last
    file,          \* the content of PATH
    \* ---- history variables (not program state)
    optSteps,      \* number of optimizer.step() calls so far
    backwards,     \* number of loss.backward() calls so far
    batchLog,      \* the operations applied to the current training batch, in order
    epochLosses,   \* the losses of the batches of the current epoch, in order
    passBatches,   \* number of batches the current loader pass has yielded
    passSeen,      \* how often each sample was yielded in the current loader pass
    trained, validated, \* per epoch value: how often its training / validation ran
    lrStep,        \* the learning rate the last optimizer.step() ran with
    saves,         \* number of torch.save calls
    savedParams,   \* net's parameter values when torch.save ran
    stepsAtSave,   \* optSteps when torch.save ran
    freshParams    \* the initial parameter values of the LeKan() of line 274

vars == <<pc, fault, cudaAvailable, nTrain, nTest, device, netParams, netDevice, grads,
          lr, last_epoch, epoch, i, trainRemaining, testRemaining, data, dataDevice,
          outputs, correct, total, accuracy, running_loss, loss, postfix, printed, file,
          optSteps, backwards, batchLog, epochLosses, passBatches, passSeen, trained,
          validated, lrStep, saves, savedParams, stepsAtSave, freshParams>>

\* ---------------------------------------------------------------- helpers
Min(a, b) == IF a < b THEN a ELSE b

RECURSIVE Gcd(_, _)
Gcd(a, b) == IF b = 0 THEN a ELSE Gcd(b, a % b)

Reduce(n, d) == LET g == Gcd(n, d) IN <<n \div g, d \div g>>

CeilDiv(n, b) == (n + b - 1) \div b

Samples(n) == 0..(n - 1)

\* The label of a sample (the dataset's content, a fixed input of the run).
Label(s) == s % NumClasses

\* LeKan.forward followed by argmax: a deterministic function of the parameter
\* values and the input. The layers are external; here the parameter value p
\* classifies the samples below 2*p correctly and the others as the next class.
Forward(p, s) == IF s < 2 * p THEN Label(s) ELSE (Label(s) + 1) % NumClasses

\* (outputs.argmax(dim=1) == labels).sum().item()
Matches(out, batch) == Cardinality({s \in batch : out[s] = Label(s)})

\* A loader with drop_last=True: it yields only full batches.
LoaderHasNextDropLast(rem) == Cardinality(rem) >= batch_size

\* DataLoader(batch_size=4) without drop_last: the iterator yields while samples remain.
LoaderHasNext(rem) == rem # {}

\* The size of the next batch.
BatchLen(rem) == Min(batch_size, Cardinality(rem))

\* shuffle=True: any BatchLen samples of the remaining ones.
ShuffledBatches(rem) == {b \in SUBSET rem : Cardinality(b) = BatchLen(rem)}

\* shuffle=False: the BatchLen smallest of the remaining ones.
SequentialBatch(rem) ==
    CHOOSE b \in SUBSET rem :
        /\ Cardinality(b) = BatchLen(rem)
        /\ \A s \in b : \A t \in rem \ b : s < t

\* ExponentialLR.get_lr: lr * gamma.
Decay(r) == Reduce(r[1] * GammaNum, r[2] * GammaDen)

\* net.state_dict(): the parameter values together with the device they live on.
StateDict(p, d) == [weights |-> p, device |-> d]

Fail(kind) ==
    /\ pc' = "fault"
    /\ fault' = kind

ZeroSeen == [s \in Samples(IF MaxTrain > MaxTest THEN MaxTrain ELSE MaxTest) |-> 0]

Bump(seen, batch) == [s \in DOMAIN seen |-> IF s \in batch THEN seen[s] + 1 ELSE seen[s]]

\* ------------------------------------------------------------------- Init
Init ==
    /\ pc = "epoch_head"
    /\ fault = "none"
    /\ cudaAvailable \in BOOLEAN
    /\ nTrain \in 1..MaxTrain
    /\ nTest \in 1..MaxTest
    /\ device = IF cudaAvailable THEN "cuda" ELSE "cpu"
    /\ netParams \in ParamVals
    /\ netDevice = device
    /\ grads = "none"
    /\ lr = <<LrBaseNum, LrBaseDen>>
    /\ last_epoch = 0
    /\ epoch = 0
    /\ i = 0
    /\ trainRemaining = {}
    /\ testRemaining = {}
    /\ data = {}
    /\ dataDevice = "cpu"
    /\ outputs = NoOutputs
    /\ correct = 0
    /\ total = 0
    /\ accuracy = Unset
    /\ running_loss = 0
    /\ loss = 0
    /\ postfix = NoPostfix
    /\ printed = Unset
    /\ file = NoFile
    /\ optSteps = 0
    /\ backwards = 0
    /\ batchLog = <<>>
    /\ epochLosses = <<>>
    /\ passBatches = 0
    /\ passSeen = ZeroSeen
    /\ trained = [e \in 0..(NumEpochs - 1) |-> 0]
    /\ validated = [e \in 0..(NumEpochs - 1) |-> 0]
    /\ lrStep = Unset
    /\ saves = 0
    /\ savedParams = 0
    /\ stepsAtSave = 0
    /\ freshParams = 0

\* ------------------------------------------------------------ training loop
\* Lines 191-195 with the loop bound one short.
EpochHeadOneShort ==
    /\ pc = "epoch_head"
    /\ IF epoch < NumEpochs - 1
       THEN /\ running_loss' = 0
            /\ trainRemaining' = Samples(nTrain)
            /\ i' = 0
            /\ postfix' = NoPostfix
            /\ epochLosses' = <<>>
            /\ passBatches' = 0
            /\ passSeen' = ZeroSeen
            /\ trained' = [trained EXCEPT ![epoch] = @ + 1]
            /\ pc' = "loader_next"
       ELSE /\ pc' = "finished"
            /\ UNCHANGED <<running_loss, trainRemaining, i, postfix, epochLosses, passBatches,
                           passSeen, trained>>
    /\ UNCHANGED <<fault, cudaAvailable, nTrain, nTest, device, netParams, netDevice, grads,
                   lr, last_epoch, epoch, testRemaining, data, dataDevice, outputs,
                   correct, total, accuracy, loss, printed, file, optSteps,
                   backwards, batchLog, validated, lrStep, saves, savedParams,
                   stepsAtSave, freshParams>>

\* Lines 191-195 with running_loss = 0.0 left out of the epoch loop.
EpochHeadKeepLoss ==
    /\ pc = "epoch_head"
    /\ IF epoch < NumEpochs
       THEN /\ trainRemaining' = Samples(nTrain)
            /\ i' = 0
            /\ postfix' = NoPostfix
            /\ epochLosses' = <<>>
            /\ passBatches' = 0
            /\ passSeen' = ZeroSeen
            /\ trained' = [trained EXCEPT ![epoch] = @ + 1]
            /\ pc' = "loader_next"
       ELSE /\ pc' = "finished"
            /\ UNCHANGED <<trainRemaining, i, postfix, epochLosses, passBatches,
                           passSeen, trained>>
    /\ UNCHANGED <<running_loss, fault, cudaAvailable, nTrain, nTest, device, netParams, netDevice, grads,
                   lr, last_epoch, epoch, testRemaining, data, dataDevice, outputs,
                   correct, total, accuracy, loss, printed, file, optSteps,
                   backwards, batchLog, validated, lrStep, saves, savedParams,
                   stepsAtSave, freshParams>>

\* Lines 191-195: the for statement of the epoch loop, running_loss = 0.0, a new
\* progress bar and the creation of the train loader's iterator.
EpochHead ==
    /\ pc = "epoch_head"
    /\ IF epoch < NumEpochs
       THEN /\ running_loss' = 0
            /\ trainRemaining' = Samples(nTrain)
            /\ i' = 0
            /\ postfix' = NoPostfix
            /\ epochLosses' = <<>>
            /\ passBatches' = 0
            /\ passSeen' = ZeroSeen
            /\ trained' = [trained EXCEPT ![epoch] = @ + 1]
            /\ pc' = "loader_next"
       ELSE /\ pc' = "finished"
            /\ UNCHANGED <<running_loss, trainRemaining, i, postfix, epochLosses, passBatches,
                           passSeen, trained>>
    /\ UNCHANGED <<fault, cudaAvailable, nTrain, nTest, device, netParams, netDevice, grads,
                   lr, last_epoch, epoch, testRemaining, data, dataDevice, outputs,
                   correct, total, accuracy, loss, printed, file, optSteps,
                   backwards, batchLog, validated, lrStep, saves, savedParams,
                   stepsAtSave, freshParams>>

\* Lines 195-198: the train loader yields the next shuffled batch, which is moved
\* to device; or the batch loop ends and the with block closes the progress bar.
LoaderNext ==
    /\ pc = "loader_next"
    /\ IF LoaderHasNext(trainRemaining)
       THEN \E b \in ShuffledBatches(trainRemaining) :
            /\ data' = b
            /\ trainRemaining' = trainRemaining \ b
            /\ dataDevice' = device
            /\ passBatches' = passBatches + 1
            /\ passSeen' = Bump(passSeen, b)
            /\ batchLog' = <<>>
            /\ pc' = "zero_grad"
            /\ UNCHANGED postfix
       ELSE /\ pc' = "val_start"
            /\ postfix' = NoPostfix
            /\ UNCHANGED <<data, trainRemaining, dataDevice, passBatches, passSeen, batchLog>>
    /\ UNCHANGED <<fault, cudaAvailable, nTrain, nTest, device, netParams, netDevice, grads,
                   lr, last_epoch, epoch, i, testRemaining, outputs, correct, total,
                   accuracy, running_loss, loss, printed, file, optSteps,
                   backwards, epochLosses, trained, validated, lrStep, saves, savedParams,
                   stepsAtSave, freshParams>>

\* Line 200: optimizer.zero_grad().
ZeroGrad ==
    /\ pc = "zero_grad"
    /\ grads' = "none"
    /\ batchLog' = Append(batchLog, "zero_grad")
    /\ pc' = "forward"
    /\ UNCHANGED <<fault, cudaAvailable, nTrain, nTest, device, netParams, netDevice,
                   lr, last_epoch, epoch, i, trainRemaining, testRemaining, data,
                   dataDevice, outputs, correct, total, accuracy, running_loss, loss,
                   postfix, printed, file, optSteps, backwards, epochLosses, passBatches,
                   passSeen, trained, validated, lrStep, saves, savedParams, stepsAtSave,
                   freshParams>>

\* Line 203: outputs = net(inputs).
ForwardTrain ==
    /\ pc = "forward"
    /\ IF netDevice = dataDevice
       THEN /\ outputs' = [s \in data |-> Forward(netParams, s)]
            /\ batchLog' = Append(batchLog, "forward")
            /\ pc' = "count"
            /\ UNCHANGED fault
       ELSE /\ Fail("device")
            /\ UNCHANGED <<outputs, batchLog>>
    /\ UNCHANGED <<cudaAvailable, nTrain, nTest, device, netParams, netDevice, grads,
                   lr, last_epoch, epoch, i, trainRemaining, testRemaining, data,
                   dataDevice, correct, total, accuracy, running_loss, loss, postfix,
                   printed, file, optSteps, backwards, epochLosses, passBatches, passSeen,
                   trained, validated, lrStep, saves, savedParams, stepsAtSave, freshParams>>

\* Lines 205-207: the running counters and accuracy = correct / total.
CountTrain ==
    /\ pc = "count"
    /\ correct' = correct + Matches(outputs, data)
    /\ total' = total + Cardinality(data)
    /\ IF total' = 0
       THEN /\ Fail("zerodiv")
            /\ UNCHANGED accuracy
       ELSE /\ accuracy' = <<correct', total'>>
            /\ pc' = "loss"
            /\ UNCHANGED fault
    /\ UNCHANGED <<cudaAvailable, nTrain, nTest, device, netParams, netDevice, grads,
                   lr, last_epoch, epoch, i, trainRemaining, testRemaining, data,
                   dataDevice, outputs, running_loss, loss, postfix, printed, file,
                   optSteps, backwards, batchLog, epochLosses, passBatches, passSeen,
                   trained, validated, lrStep, saves, savedParams, stepsAtSave, freshParams>>

\* Lines 208-213: loss = criterion(outputs, labels) + 0 * l1_reg. The cross-entropy
\* of a batch is some non-negative number.
ComputeLoss ==
    /\ pc = "loss"
    /\ \E l \in 0..MaxLoss : loss' = l
    /\ batchLog' = Append(batchLog, "loss")
    /\ pc' = "backward"
    /\ UNCHANGED <<fault, cudaAvailable, nTrain, nTest, device, netParams, netDevice, grads,
                   lr, last_epoch, epoch, i, trainRemaining, testRemaining, data,
                   dataDevice, outputs, correct, total, accuracy, running_loss,
                   postfix, printed, file, optSteps, backwards, epochLosses, passBatches,
                   passSeen, trained, validated, lrStep, saves, savedParams, stepsAtSave,
                   freshParams>>

\* Line 214 with line 215 left out: the batch gets no optimizer step.
BackwardWithoutStep ==
    /\ pc = "backward"
    /\ grads' = "computed"
    /\ backwards' = backwards + 1
    /\ batchLog' = Append(batchLog, "backward")
    /\ pc' = "record"
    /\ UNCHANGED <<fault, cudaAvailable, nTrain, nTest, device, netParams, netDevice,
                   lr, last_epoch, epoch, i, trainRemaining, testRemaining, data,
                   dataDevice, outputs, correct, total, accuracy, running_loss, loss,
                   postfix, printed, file, optSteps, epochLosses, passBatches,
                   passSeen, trained, validated, lrStep, saves, savedParams, stepsAtSave,
                   freshParams>>

\* Line 214: loss.backward().
Backward ==
    /\ pc = "backward"
    /\ grads' = "computed"
    /\ backwards' = backwards + 1
    /\ batchLog' = Append(batchLog, "backward")
    /\ pc' = "step"
    /\ UNCHANGED <<fault, cudaAvailable, nTrain, nTest, device, netParams, netDevice,
                   lr, last_epoch, epoch, i, trainRemaining, testRemaining, data,
                   dataDevice, outputs, correct, total, accuracy, running_loss, loss,
                   postfix, printed, file, optSteps, epochLosses, passBatches,
                   passSeen, trained, validated, lrStep, saves, savedParams, stepsAtSave,
                   freshParams>>

\* Line 215: optimizer.step(): AdamW moves the parameters that have a gradient to
\* some new values, using the current learning rate.
OptimizerStep ==
    /\ pc = "step"
    /\ IF grads = "computed"
       THEN \E p \in ParamVals : netParams' = p
       ELSE netParams' = netParams
    /\ optSteps' = optSteps + 1
    /\ lrStep' = lr
    /\ batchLog' = Append(batchLog, "step")
    /\ pc' = "record"
    /\ UNCHANGED <<fault, cudaAvailable, nTrain, nTest, device, netDevice, grads,
                   lr, last_epoch, epoch, i, trainRemaining, testRemaining, data,
                   dataDevice, outputs, correct, total, accuracy, running_loss, loss,
                   postfix, printed, file, backwards, epochLosses, passBatches,
                   passSeen, trained, validated, saves, savedParams, stepsAtSave,
                   freshParams>>

\* Lines 218-220 with a scheduler.step() inside the batch loop.
RecordLossAndDecay ==
    /\ pc = "record"
    /\ running_loss' = running_loss + loss
    /\ epochLosses' = Append(epochLosses, loss)
    /\ postfix' = [loss |-> <<running_loss', i + 1>>, accuracy |-> accuracy]
    /\ i' = i + 1
    /\ lr' = Decay(lr)
    /\ last_epoch' = last_epoch + 1
    /\ pc' = "loader_next"
    /\ UNCHANGED <<fault, cudaAvailable, nTrain, nTest, device, netParams, netDevice, grads,
                   epoch, trainRemaining, testRemaining, data,
                   dataDevice, outputs, correct, total, accuracy, loss,
                   printed, file, optSteps, backwards, batchLog, passBatches,
                   passSeen, trained, validated, lrStep, saves, savedParams, stepsAtSave,
                   freshParams>>

\* Lines 218-220: running_loss += loss.item(); the progress bar shows
\* running_loss / (i + 1) and accuracy; then the batch loop takes its next turn.
RecordLoss ==
    /\ pc = "record"
    /\ running_loss' = running_loss + loss
    /\ epochLosses' = Append(epochLosses, loss)
    /\ postfix' = [loss |-> <<running_loss', i + 1>>, accuracy |-> accuracy]
    /\ i' = i + 1
    /\ pc' = "loader_next"
    /\ UNCHANGED <<fault, cudaAvailable, nTrain, nTest, device, netParams, netDevice, grads,
                   lr, last_epoch, epoch, trainRemaining, testRemaining, data,
                   dataDevice, outputs, correct, total, accuracy, loss,
                   printed, file, optSteps, backwards, batchLog, passBatches,
                   passSeen, trained, validated, lrStep, saves, savedParams, stepsAtSave,
                   freshParams>>

\* --------------------------------------------------------------- validation
\* Lines 226-228 with the reset of correct left out.
ValidationStartKeepCorrect ==
    /\ pc = "val_start"
    /\ total' = 0
    /\ testRemaining' = Samples(nTest)
    /\ passBatches' = 0
    /\ passSeen' = ZeroSeen
    /\ validated' = [validated EXCEPT ![epoch] = @ + 1]
    /\ pc' = "val_next"
    /\ UNCHANGED <<fault, cudaAvailable, nTrain, nTest, device, netParams, netDevice, grads, lr,
                   last_epoch, epoch, i, trainRemaining, data, dataDevice, outputs, correct, accuracy,
                   running_loss, loss, postfix, printed, file, optSteps, backwards, batchLog,
                   epochLosses, trained, lrStep, saves, savedParams, stepsAtSave, freshParams>>

\* Lines 226-228: correct = 0, total = 0, and the test loader's iterator is created
\* under torch.no_grad().
ValidationStart ==
    /\ pc = "val_start"
    /\ correct' = 0
    /\ total' = 0
    /\ testRemaining' = Samples(nTest)
    /\ passBatches' = 0
    /\ passSeen' = ZeroSeen
    /\ validated' = [validated EXCEPT ![epoch] = @ + 1]
    /\ pc' = "val_next"
    /\ UNCHANGED <<fault, cudaAvailable, nTrain, nTest, device, netParams, netDevice, grads, lr,
                   last_epoch, epoch, i, trainRemaining, data, dataDevice, outputs, accuracy,
                   running_loss, loss, postfix, printed, file, optSteps, backwards, batchLog,
                   epochLosses, trained, lrStep, saves, savedParams, stepsAtSave, freshParams>>

\* Lines 229-231: the test loader yields its next batch, in order, which is moved to
\* device; or the validation loop ends.
ValNext ==
    /\ pc = "val_next"
    /\ IF LoaderHasNext(testRemaining)
       THEN LET b == SequentialBatch(testRemaining) IN
            /\ data' = b
            /\ testRemaining' = testRemaining \ b
            /\ dataDevice' = device
            /\ passBatches' = passBatches + 1
            /\ passSeen' = Bump(passSeen, b)
            /\ pc' = "val_forward"
       ELSE /\ pc' = "val_acc"
            /\ UNCHANGED <<data, testRemaining, dataDevice, passBatches, passSeen>>
    /\ UNCHANGED <<fault, cudaAvailable, nTrain, nTest, device, netParams, netDevice, grads, lr,
                   last_epoch, epoch, i, trainRemaining, outputs, correct, total, accuracy,
                   running_loss, loss, postfix, printed, file, optSteps, backwards, batchLog,
                   epochLosses, trained, validated, lrStep, saves, savedParams, stepsAtSave,
                   freshParams>>

\* Lines 232-234 followed by an optimizer step on the test batch.
ValForwardWithStep ==
    /\ pc = "val_forward"
    /\ IF netDevice = dataDevice
       THEN /\ outputs' = [s \in data |-> Forward(netParams, s)]
            /\ correct' = correct + Matches(outputs', data)
            /\ total' = total + Cardinality(data)
            /\ pc' = "val_next"
            /\ UNCHANGED fault
       ELSE /\ Fail("device")
            /\ UNCHANGED <<outputs, correct, total>>
    /\ \E p \in ParamVals : netParams' = p
    /\ optSteps' = optSteps + 1
    /\ UNCHANGED <<cudaAvailable, nTrain, nTest, device, netDevice, grads, lr, last_epoch, epoch, i,
                   trainRemaining, testRemaining, data, dataDevice, accuracy, running_loss, loss,
                   postfix, printed, file, backwards, batchLog, epochLosses, passBatches, passSeen,
                   trained, validated, lrStep, saves, savedParams, stepsAtSave, freshParams>>

\* Lines 232-234: outputs = net(images) and the counters of the validation pass.
ValForward ==
    /\ pc = "val_forward"
    /\ IF netDevice = dataDevice
       THEN /\ outputs' = [s \in data |-> Forward(netParams, s)]
            /\ correct' = correct + Matches(outputs', data)
            /\ total' = total + Cardinality(data)
            /\ pc' = "val_next"
            /\ UNCHANGED fault
       ELSE /\ Fail("device")
            /\ UNCHANGED <<outputs, correct, total>>
    /\ UNCHANGED <<cudaAvailable, nTrain, nTest, device, netParams, netDevice, grads, lr, last_epoch,
                   epoch, i, trainRemaining, testRemaining, data, dataDevice, accuracy, running_loss,
                   loss, postfix, printed, file, optSteps, backwards, batchLog, epochLosses,
                   passBatches, passSeen, trained, validated, lrStep, saves, savedParams, stepsAtSave,
                   freshParams>>

\* Lines 235-236: accuracy = correct / total, printed.
ValAccuracy ==
    /\ pc = "val_acc"
    /\ IF total = 0
       THEN /\ Fail("zerodiv")
            /\ UNCHANGED <<accuracy, printed>>
       ELSE /\ accuracy' = <<correct, total>>
            /\ printed' = accuracy'
            /\ pc' = "sched"
            /\ UNCHANGED fault
    /\ UNCHANGED <<cudaAvailable, nTrain, nTest, device, netParams, netDevice, grads, lr, last_epoch,
                   epoch, i, trainRemaining, testRemaining, data, dataDevice, outputs, correct, total,
                   running_loss, loss, postfix, file, optSteps, backwards, batchLog, epochLosses,
                   passBatches, passSeen, trained, validated, lrStep, saves, savedParams, stepsAtSave,
                   freshParams>>

\* Line 237: scheduler.step(); then the epoch loop takes its next turn.
SchedulerStep ==
    /\ pc = "sched"
    /\ lr' = Decay(lr)
    /\ last_epoch' = last_epoch + 1
    /\ epoch' = epoch + 1
    /\ pc' = "epoch_head"
    /\ UNCHANGED <<fault, cudaAvailable, nTrain, nTest, device, netParams, netDevice, grads, i,
                   trainRemaining, testRemaining, data, dataDevice, outputs, correct, total, accuracy,
                   running_loss, loss, postfix, printed, file, optSteps, backwards, batchLog,
                   epochLosses, passBatches, passSeen, trained, validated, lrStep, saves, savedParams,
                   stepsAtSave, freshParams>>

\* ----------------------------------------------------------- after training
\* Lines 239-245: print('Finished Training'); torch.save(net.state_dict(), PATH).
SaveCheckpoint ==
    /\ pc = "finished"
    /\ file' = StateDict(netParams, netDevice)
    /\ saves' = saves + 1
    /\ savedParams' = netParams
    /\ stepsAtSave' = optSteps
    /\ pc' = "dataiter"
    /\ UNCHANGED <<fault, cudaAvailable, nTrain, nTest, device, netParams, netDevice, grads, lr,
                   last_epoch, epoch, i, trainRemaining, testRemaining, data, dataDevice, outputs,
                   correct, total, accuracy, running_loss, loss, postfix, printed, optSteps, backwards,
                   batchLog, epochLosses, passBatches, passSeen, trained, validated, lrStep,
                   freshParams>>

\* Lines 263-264: a new iterator of the test loader and its first batch, which
\* stays on the CPU.
FirstTestBatch ==
    /\ pc = "dataiter"
    /\ IF LoaderHasNext(Samples(nTest))
       THEN LET b == SequentialBatch(Samples(nTest)) IN
            /\ data' = b
            /\ testRemaining' = Samples(nTest) \ b
            /\ dataDevice' = "cpu"
            /\ pc' = "show"
            /\ UNCHANGED fault
       ELSE /\ Fail("stop_iteration")
            /\ UNCHANGED <<data, testRemaining, dataDevice>>
    /\ UNCHANGED <<cudaAvailable, nTrain, nTest, device, netParams, netDevice, grads, lr, last_epoch,
                   epoch, i, trainRemaining, outputs, correct, total, accuracy, running_loss, loss,
                   postfix, printed, file, optSteps, backwards, batchLog, epochLosses, passBatches,
                   passSeen, trained, validated, lrStep, saves, savedParams, stepsAtSave, freshParams>>

\* Lines 267-268: the image grid is shown and labels[j] is read for j in range(4).
ShowGroundTruth ==
    /\ pc = "show"
    /\ IF Cardinality(data) < GroundTruthCount
       THEN Fail("index")
       ELSE /\ pc' = "new_net"
            /\ UNCHANGED fault
    /\ UNCHANGED <<cudaAvailable, nTrain, nTest, device, netParams, netDevice, grads, lr, last_epoch,
                   epoch, i, trainRemaining, testRemaining, data, dataDevice, outputs, correct, total,
                   accuracy, running_loss, loss, postfix, printed, file, optSteps, backwards, batchLog,
                   epochLosses, passBatches, passSeen, trained, validated, lrStep, saves, savedParams,
                   stepsAtSave, freshParams>>

\* Line 274: net = LeKan(): a new model on the CPU with newly initialised parameters.
NewNet ==
    /\ pc = "new_net"
    /\ \E p \in ParamVals :
        /\ netParams' = p
        /\ freshParams' = p
    /\ netDevice' = "cpu"
    /\ grads' = "none"
    /\ pc' = "load"
    /\ UNCHANGED <<fault, cudaAvailable, nTrain, nTest, device, lr, last_epoch, epoch, i,
                   trainRemaining, testRemaining, data, dataDevice, outputs, correct, total, accuracy,
                   running_loss, loss, postfix, printed, file, optSteps, backwards, batchLog,
                   epochLosses, passBatches, passSeen, trained, validated, lrStep, saves, savedParams,
                   stepsAtSave>>

\* Line 275: net.load_state_dict(torch.load(PATH)): the saved values are copied
\* into the model's parameters, which stay on the model's device.
LoadStateDict ==
    /\ pc = "load"
    /\ IF file = NoFile
       THEN /\ Fail("file_not_found")
            /\ UNCHANGED netParams
       ELSE /\ netParams' = file.weights
            /\ pc' = "cuda"
            /\ UNCHANGED fault
    /\ UNCHANGED <<cudaAvailable, nTrain, nTest, device, netDevice, grads, lr, last_epoch, epoch, i,
                   trainRemaining, testRemaining, data, dataDevice, outputs, correct, total, accuracy,
                   running_loss, loss, postfix, printed, file, optSteps, backwards, batchLog,
                   epochLosses, passBatches, passSeen, trained, validated, lrStep, saves, savedParams,
                   stepsAtSave, freshParams>>

\* Line 277: net.cuda(), which raises when no CUDA device is available.
NetCuda ==
    /\ pc = "cuda"
    /\ IF cudaAvailable
       THEN /\ netDevice' = "cuda"
            /\ pc' = "reload_forward"
            /\ UNCHANGED fault
       ELSE /\ Fail("cuda_unavailable")
            /\ UNCHANGED netDevice
    /\ UNCHANGED <<cudaAvailable, nTrain, nTest, device, netParams, grads, lr, last_epoch, epoch, i,
                   trainRemaining, testRemaining, data, dataDevice, outputs, correct, total, accuracy,
                   running_loss, loss, postfix, printed, file, optSteps, backwards, batchLog,
                   epochLosses, passBatches, passSeen, trained, validated, lrStep, saves, savedParams,
                   stepsAtSave, freshParams>>

\* Line 281: outputs = net(images), with images as the loader yielded them.
ReloadForward ==
    /\ pc = "reload_forward"
    /\ IF netDevice = dataDevice
       THEN /\ outputs' = [s \in data |-> Forward(netParams, s)]
            /\ pc' = "predicted"
            /\ UNCHANGED fault
       ELSE /\ Fail("device")
            /\ UNCHANGED outputs
    /\ UNCHANGED <<cudaAvailable, nTrain, nTest, device, netParams, netDevice, grads, lr, last_epoch,
                   epoch, i, trainRemaining, testRemaining, data, dataDevice, correct, total, accuracy,
                   running_loss, loss, postfix, printed, file, optSteps, backwards, batchLog,
                   epochLosses, passBatches, passSeen, trained, validated, lrStep, saves, savedParams,
                   stepsAtSave, freshParams>>

\* ------------------------------------------------------------ specification
Next ==
    \/ EpochHead
    \/ LoaderNext
    \/ ZeroGrad
    \/ ForwardTrain
    \/ CountTrain
    \/ ComputeLoss
    \/ Backward
    \/ OptimizerStep
    \/ RecordLoss
    \/ ValidationStart
    \/ ValNext
    \/ ValForward
    \/ ValAccuracy
    \/ SchedulerStep
    \/ SaveCheckpoint
    \/ FirstTestBatch
    \/ ShowGroundTruth
    \/ NewNet
    \/ LoadStateDict
    \/ NetCuda
    \/ ReloadForward

Spec == Init /\ [][Next]_vars

\* ------------------------------------------------------------------ claims
B == CeilDiv(nTrain, batch_size)
BatchPcs == {"zero_grad", "forward", "count", "loss", "backward", "step", "record"}
TrainPcs == BatchPcs \cup {"loader_next"}
ValPcs == {"val_start", "val_next", "val_forward", "val_acc"}
AfterTrainingPcs == {"finished", "dataiter", "show", "new_net", "load", "cuda",
                     "reload_forward", "predicted", "fault"}
AfterLoadPcs == {"cuda", "reload_forward", "predicted"}
BatchOrder == <<"zero_grad", "forward", "loss", "backward", "step">>

RECURSIVE Sum(_)
Sum(s) == IF s = <<>> THEN 0 ELSE Head(s) + Sum(Tail(s))

RECURSIVE Pow(_, _)
Pow(b, n) == IF n = 0 THEN 1 ELSE b * Pow(b, n - 1)

\* 0.001 * 0.8^e as a reduced fraction: 4^e / (1000 * 5^e).
ExpectedLr(e) ==
    IF e = 0 THEN <<1, 1000>>
    ELSE IF e = 1 THEN <<1, 1250>>
    ELSE <<Pow(2, 2 * e - 3), Pow(5, e + 3)>>

\* C1: every training batch of every epoch goes through zero_grad, forward, loss,
\* backward and exactly one optimizer step, in this order; no batch is skipped, so
\* after E completed epochs over B batches exactly E*B optimizer steps were applied.
C1_BatchStepOrder ==
    /\ Len(batchLog) <= Len(BatchOrder)
    /\ \A k \in 1..Len(batchLog) : batchLog[k] = BatchOrder[k]
    /\ (pc = "record" => batchLog = BatchOrder)
    /\ (pc \in BatchPcs => passBatches = i + 1)
    /\ (pc \in TrainPcs =>
            optSteps = epoch * B + i + (IF pc = "record" THEN 1 ELSE 0))
    /\ (pc = "epoch_head" => optSteps = epoch * B)
    /\ (pc \in AfterTrainingPcs => optSteps = NumEpochs * B)
    /\ backwards = optSteps + (IF pc = "step" THEN 1 ELSE 0)

C1_Witness ==
    /\ pc = "epoch_head"
    /\ epoch = NumEpochs
    /\ nTrain > batch_size
    /\ optSteps = NumEpochs * 2

\* C2: when the first training batch of an epoch is about to be processed,
\* running_loss, correct and total are all zero.
C2_CountersZeroAtEpochStart ==
    (pc = "zero_grad" /\ i = 0) => (running_loss = 0 /\ correct = 0 /\ total = 0)

\* C3: wherever accuracy = correct / total is computed, total > 0 and
\* 0 <= correct <= total, so every displayed or printed accuracy is in [0, 1].
C3_AccuracyInUnitInterval ==
    /\ fault # "zerodiv"
    /\ (pc \in {"loss", "sched"} => accuracy = <<correct, total>>)
    /\ (pc \in {"loss", "val_acc", "sched"} => (total > 0 /\ 0 <= correct /\ correct <= total))
    /\ \A a \in {accuracy, postfix.accuracy, printed} :
           a # Unset => (a[2] > 0 /\ 0 <= a[1] /\ a[1] <= a[2])

C3_Witness ==
    /\ pc = "sched"
    /\ epoch >= 1
    /\ nTest > batch_size
    /\ printed[1] > 0 /\ printed[1] < printed[2]
    /\ accuracy = printed

\* C4: the learning rate is decayed by 0.8 once after each epoch and at no other
\* time, one validation pass runs per epoch after its training batches, every
\* optimizer step of epoch e uses 0.001 * 0.8^e, and after the 10 epochs there
\* were 10 decays and 10 validation passes.
C4_DecayOncePerEpoch ==
    /\ last_epoch = epoch
    /\ lr = ExpectedLr(last_epoch)
    /\ (pc = "record" => lrStep = ExpectedLr(epoch))
    /\ \A e \in 0..(NumEpochs - 1) :
        validated[e] = (IF e < epoch \/ (e = epoch /\ pc \in {"val_next", "val_forward", "val_acc", "sched"})
                        THEN 1 ELSE 0)
    /\ (pc \in ValPcs => (trainRemaining = {} /\ i = B))
    /\ (pc \in AfterTrainingPcs => last_epoch = NumEpochs)

C4_Witness ==
    /\ pc = "dataiter"
    /\ last_epoch = NumEpochs
    /\ nTrain > batch_size
    /\ lrStep = <<32768, 244140625>>
    /\ lr = <<131072, 1220703125>>
    /\ \A e \in 0..(NumEpochs - 1) : validated[e] = 1

C6_BatchesPerPass ==
    /\ Cardinality(data) <= batch_size
    /\ \A s \in DOMAIN passSeen : passSeen[s] <= 1
    /\ (pc = "val_start" =>
            /\ passBatches = CeilDiv(nTrain, batch_size)
            /\ i = passBatches
            /\ \A s \in Samples(nTrain) : passSeen[s] = 1)
    /\ (pc \in {"val_acc", "sched"} =>
            /\ passBatches = CeilDiv(nTest, batch_size)
            /\ \A s \in Samples(nTest) : passSeen[s] = 1
            /\ total = nTest)

C6_Witness ==
    /\ pc = "val_acc"
    /\ nTest = batch_size + 1
    /\ passBatches = 2
    /\ total = nTest
    /\ Cardinality(data) = 1

\* The number of statements main() has run since the start of the epoch loop, for
\* the states up to 'Finished Training'.
Bt == CeilDiv(nTest, batch_size)
EpochLen == 6 + 8 * B + 2 * Bt
BatchPos ==
    [zero_grad |-> 1, forward |-> 2, count |-> 3, loss |-> 4, backward |-> 5, step |-> 6,
     record |-> 7]
Position ==
    CASE pc = "epoch_head" -> 0
      [] pc = "loader_next" -> 1 + 8 * i
      [] pc \in BatchPcs -> 1 + 8 * i + BatchPos[pc]
      [] pc = "val_start" -> 2 + 8 * B
      [] pc = "val_next" -> 3 + 8 * B + 2 * passBatches
      [] pc = "val_forward" -> 2 + 8 * B + 2 * passBatches
      [] pc = "val_acc" -> 4 + 8 * B + 2 * Bt
      [] pc = "sched" -> 5 + 8 * B + 2 * Bt
      [] OTHER -> 0
Progress == epoch * EpochLen + Position
InLoop == pc \notin AfterTrainingPcs
EpochStep ==
    /\ (epoch' = epoch \/ epoch' = epoch + 1)
    /\ (InLoop /\ pc' # "finished" => Progress' = Progress + 1)
    /\ (InLoop /\ pc' = "finished" => Progress = NumEpochs * EpochLen)

\* C7: the epoch counter goes from 0 to 10 in steps of one and never decreases,
\* each epoch value 0..9 is trained and validated exactly once, and the loop
\* terminates: every step before 'Finished Training' can be followed by another and
\* advances a counter bounded by 10 epochs' worth of statements, and 'Finished
\* Training' is reached only after exactly 10 epochs.
C7_EpochProgress ==
    /\ [][EpochStep]_vars
    /\ [](epoch \in 0..NumEpochs)
    /\ [](InLoop => (ENABLED Next /\ fault = "none" /\ Progress <= NumEpochs * EpochLen))
    /\ [](\A e \in 0..(NumEpochs - 1) :
            /\ trained[e] = (IF e < epoch \/ (e = epoch /\ pc # "epoch_head") THEN 1 ELSE 0)
            /\ validated[e] <= trained[e])
    /\ [](pc \in AfterTrainingPcs =>
            /\ epoch = NumEpochs
            /\ \A e \in 0..(NumEpochs - 1) : trained[e] = 1 /\ validated[e] = 1)

C7_Witness ==
    /\ pc = "finished"
    /\ epoch = NumEpochs
    /\ \A e \in 0..(NumEpochs - 1) : trained[e] = 1 /\ validated[e] = 1

\* C8: the running average loss displayed after batch i of an epoch is
\* running_loss / (i + 1) with running_loss the sum of the losses of batches 0..i
\* of the current epoch only; it is non-negative.
C8_RunningAverageLoss ==
    /\ running_loss = Sum(epochLosses)
    /\ running_loss >= 0
    /\ (pc \in TrainPcs => Len(epochLosses) = i)
    /\ (pc = "loader_next" /\ i > 0 => postfix.loss = <<Sum(epochLosses), i>>)
    /\ (postfix.loss # Unset => (postfix.loss[1] >= 0 /\ postfix.loss[2] > 0))

C8_Witness ==
    /\ pc = "loader_next"
    /\ epoch >= 1
    /\ i = 2
    /\ epochLosses = <<0, 1>>
    /\ postfix.loss = <<1, 2>>

ValidationStepFrame ==
    pc \in ValPcs =>
        /\ netParams' = netParams
        /\ netDevice' = netDevice
        /\ grads' = grads
        /\ lr' = lr
        /\ last_epoch' = last_epoch
        /\ running_loss' = running_loss
        /\ optSteps' = optSteps
        /\ backwards' = backwards
        /\ epoch' = epoch
        /\ file' = file

\* C9: a step of the validation pass (from its start to the printing of the
\* accuracy) computes no gradient, makes no optimizer step and leaves the model
\* parameters, the learning rate and running_loss unchanged.
C9_ValidationFrame == [][ValidationStepFrame]_vars

C9_Witness ==
    /\ pc = "sched"
    /\ epoch >= 1
    /\ nTest > batch_size
    /\ total = nTest
    /\ correct > 0
    /\ optSteps > 0
    /\ running_loss > 0

\* C10: every forward pass applies the model to inputs on the device of the model's
\* parameters, and the script ends without a device fault.
C10_NoDeviceFault ==
    /\ (pc \in {"forward", "val_forward", "reload_forward"} => netDevice = dataDevice)
    /\ fault \notin {"device", "cuda_unavailable"}

====
